---- MODULE Spec2Model ----
(***************************************************************************)
(* A model of crawl4ai/async_webcrawler.py: AsyncWebCrawler.__init__, arun, *)
(* aprocess_html and arun_many, with the cache store, the fetcher, the     *)
(* scraping and extraction strategies and the clock as environment.        *)
(*                                                                         *)
(* The crawler runs on one asyncio event loop: a coroutine runs alone from *)
(* one suspension (an await that really waits) to the next, so every       *)
(* action below is the code between two suspensions of one task.           *)
(***************************************************************************)
EXTENDS Integers, Sequences, FiniteSets, TLC

(***************************************************************************)
(* Bounds of the model.                                                    *)
(***************************************************************************)
MaxBatchLen == 2         \* urls handed to one arun_many call
MaxTime == 1             \* the clock runs from 0 to MaxTime
MaxChunks == 2           \* chunks the configured chunking strategy returns

DefaultSemaphoreCount == 5   \* `config.semaphore_count or 5`
PrefixLen == 200             \* `section[:200]`
PercentileRank == 90         \* `np.percentile(scores, 90)`
DateThreshold == 1           \* `date_result["score"] > 0.1`, in tenths

(***************************************************************************)
(* Values.  Python's None is the string "None"; a url is the tuple         *)
(* <<scheme, netloc, path>> and the empty string is the empty tuple.       *)
(***************************************************************************)
None == "None"
EmptyUrl == <<>>
NonStringUrl == <<"not a str">>     \* a url argument that is not a str
UrlA1 == <<"https", "a.example", "/1">>
UrlB1 == <<"https", "b.example", "/1">>
ValidUrls == {UrlA1, UrlB1}
Origins == {"a.example", "b.example", ""}

CacheModes == {"ENABLED", "DISABLED", "BYPASS", "READ_ONLY", "WRITE_ONLY"}

\* bool(x) of a Python string or None
Truthy(x) == x \notin {None, ""}

\* urlparse(url).netloc
Netloc(url) == IF Len(url) >= 2 THEN url[2] ELSE ""

\* `not isinstance(url, str) or not url`
InvalidUrl(url) == url = NonStringUrl \/ url = EmptyUrl

(***************************************************************************)
(* CrawlResult (models.py), restricted to the fields arun reads or stamps. *)
(* `some` is FALSE for Python's None in a variable that holds a result.    *)
(***************************************************************************)
CrawlResult(url, html, success, error_message, screenshot, pdf, extracted_content) ==
    [some |-> TRUE, url |-> url, html |-> html, success |-> success,
     error_message |-> error_message, screenshot |-> screenshot, pdf |-> pdf,
     extracted_content |-> extracted_content]

NoResult ==
    [some |-> FALSE, url |-> EmptyUrl, html |-> None, success |-> FALSE,
     error_message |-> None, screenshot |-> None, pdf |-> None,
     extracted_content |-> None]

(***************************************************************************)
(* CrawlerRunConfig (async_configs.py), the fields this file reads.        *)
(***************************************************************************)
RunConfig(cache_mode, screenshot, pdf, extraction_strategy, chunking_strategy, semaphore_count, mean_delay, max_range) ==
    [some |-> TRUE, cache_mode |-> cache_mode, screenshot |-> screenshot, pdf |-> pdf,
     extraction_strategy |-> extraction_strategy,
     chunking_strategy |-> chunking_strategy,
     semaphore_count |-> semaphore_count, mean_delay |-> mean_delay,
     max_range |-> max_range]

NoConfig ==
    [some |-> FALSE, cache_mode |-> None, screenshot |-> FALSE, pdf |-> FALSE,
     extraction_strategy |-> None, chunking_strategy |-> None,
     semaphore_count |-> 0, mean_delay |-> 0, max_range |-> 0]

\* The keyword arguments of arun besides url and config (the legacy parameters).
LegacyArgs(cache_mode, bypass_cache, disable_cache, no_cache_read, no_cache_write, screenshot, pdf, extraction_strategy) ==
    [cache_mode |-> cache_mode, bypass_cache |-> bypass_cache,
     disable_cache |-> disable_cache, no_cache_read |-> no_cache_read,
     no_cache_write |-> no_cache_write, screenshot |-> screenshot, pdf |-> pdf,
     extraction_strategy |-> extraction_strategy]

\* arun called with nothing but url (and keywords that land in **kwargs)
DefaultLegacy == LegacyArgs(None, FALSE, FALSE, FALSE, FALSE, FALSE, FALSE, None)

\* CrawlerRunConfig.from_kwargs(config_kwargs): each field from its keyword,
\* chunking_strategy from arun's default RegexChunking().  A key that names
\* no field of the config (such as crawler_config) is not read.
FromKwargs(legacy) ==
    RunConfig(legacy.cache_mode, legacy.screenshot, legacy.pdf,
              legacy.extraction_strategy, "RegexChunking", 0, 0, 0)

\* cache_context._legacy_to_cache_mode
LegacyToCacheMode(disable_cache, bypass_cache, no_cache_read, no_cache_write) ==
    IF disable_cache THEN "DISABLED"
    ELSE IF bypass_cache THEN "BYPASS"
    ELSE IF no_cache_read /\ no_cache_write THEN "DISABLED"
    ELSE IF no_cache_read THEN "WRITE_ONLY"
    ELSE IF no_cache_write THEN "READ_ONLY"
    ELSE "ENABLED"

\* CacheContext.should_read / should_write
ShouldRead(cache_mode, always_bypass) ==
    IF always_bypass THEN FALSE ELSE cache_mode \in {"ENABLED", "READ_ONLY"}

ShouldWrite(cache_mode, always_bypass) ==
    IF always_bypass THEN FALSE
    ELSE cache_mode \in {"ENABLED", "BYPASS", "WRITE_ONLY"}

(***************************************************************************)
(* State.                                                                  *)
(***************************************************************************)
VARIABLES
    always_bypass_cache,  \* self.always_bypass_cache
    lock,                 \* self._lock: -1 is None, 0 unlocked, i held by task i
    domain_last_hit,      \* self._domain_last_hit: origin -> time, -1 when absent
    cache,                \* async_db_manager: url -> stored CrawlResult or NoResult
    now,                  \* time.time()
    tasks,                \* the arun invocations: task -> its locals and position
    phase,                \* "idle", "running" (inside gather) or "returned"
    urls,                 \* arun_many's urls
    batch_config,         \* arun_many's config
    semaphore,            \* the value of asyncio.Semaphore(semaphore_count)
    done_order,           \* the tasks of the batch in the order they completed
    results,              \* what arun_many returned
    extraction            \* one run of aprocess_html's content extraction block

vars == <<always_bypass_cache, lock, domain_last_hit, cache, now, tasks, phase,
          urls, batch_config, semaphore, done_order, results, extraction>>

Tasks == 1..MaxBatchLen

\* What a call gave back: nothing yet, a CrawlResult, or an exception.
NoRet == [kind |-> "none", result |-> NoResult, exc |-> None]
Returned(r) == [kind |-> "result", result |-> r, exc |-> None]
Raised(e) == [kind |-> "raise", result |-> NoResult, exc |-> e]

\* The locals of one arun invocation (and of the crawl_with_semaphore around
\* it); n_lock (entries into `async with self._lock or ...`), n_read, n_fetch, n_transform, n_extract, n_write, read_entry,
\* slept and failed record what the invocation did, caller_config is the
\* object the caller passed as config, as it is now.
IdleTask ==
    [pc |-> "idle", via_many |-> FALSE, url |-> EmptyUrl,
     crawler_config |-> NoConfig, legacy |-> DefaultLegacy, kwargs |-> NoConfig,
     config |-> NoConfig, should_read |-> FALSE, should_write |-> FALSE,
     cached_result |-> NoResult, html |-> None, extracted_content |-> None,
     screenshot_data |-> None, pdf_data |-> None, crawl_result |-> NoResult,
     ret |-> NoRet,
     current_time |-> 0, wake_at |-> 0, dispatched |-> -1,
     read_entry |-> NoResult, n_read |-> 0, n_fetch |-> 0, n_transform |-> 0,
     n_write |-> 0, failed |-> None,
     last_hit |-> -1, slept |-> FALSE, n_lock |-> 0, n_extract |-> 0,
     caller_config |-> NoConfig]

\* arun(url, config=crawler_config, **legacy, **kwargs) as it is called
NewTask(url, crawler_config, legacy, kwargs, via_many) ==
    [IdleTask EXCEPT !.pc = "called", !.url = url, !.crawler_config = crawler_config,
                     !.caller_config = crawler_config,
                     !.legacy = legacy, !.kwargs = kwargs, !.via_many = via_many]

(***************************************************************************)
(* The code that runs between two suspensions reads and writes the shared  *)
(* state below; the operators that model it take this record and return it *)
(* changed.                                                                *)
(***************************************************************************)
World ==
    [tasks |-> tasks, domain_last_hit |-> domain_last_hit, semaphore |-> semaphore,
     lock |-> lock, done_order |-> done_order]

Apply(W) ==
    /\ tasks' = W.tasks
    /\ domain_last_hit' = W.domain_last_hit
    /\ semaphore' = W.semaphore
    /\ lock' = W.lock
    /\ done_order' = W.done_order

\* AsyncWebCrawler.__init__: the deprecated always_by_pass_cache wins when given.
InitBypass(bypass_new, bypass_deprecated) ==
    IF bypass_deprecated # None THEN bypass_deprecated = "True" ELSE bypass_new

\* self._lock = asyncio.Lock() if thread_safe else None
InitLock(thread_safe) == IF thread_safe THEN 0 ELSE -1

\* A faulty variant: the permit of the semaphore is not given back
FinishKeepsPermit(W, i, ret) ==
    [W EXCEPT !.tasks[i].pc = "done",
              !.tasks[i].ret = ret,
              !.lock = IF @ = i THEN 0 ELSE @,
              !.done_order = IF W.tasks[i].via_many THEN Append(@, i) ELSE @]

\* The invocation of task i ends with ret: leaving `async with self._lock`
\* releases the lock, leaving `async with semaphore` the permit, and the
\* task of gather is done.
Finish(W, i, ret) ==
    [W EXCEPT !.tasks[i].pc = "done",
              !.tasks[i].ret = ret,
              !.lock = IF @ = i THEN 0 ELSE @,
              !.semaphore = IF W.tasks[i].via_many THEN @ + 1 ELSE @,
              !.done_order = IF W.tasks[i].via_many THEN Append(@, i) ELSE @]

\* f"Unexpected error in _crawl_web at line ... Error: {str(e)} ..."
ErrorMessage(e) == "Unexpected error in _crawl_web"

\* A faulty variant: the exception leaves arun
Reraise(W, i, stage, e) ==
    Finish([W EXCEPT !.tasks[i].failed = stage], i, Raised(e))

\* arun's `except Exception as e`: the failed CrawlResult.
FailedResult(url, e) ==
    CrawlResult(url, "", FALSE, ErrorMessage(e), None, None, None)

\* A faulty variant: a failed transform still goes to the write-back
ExceptThenWrite(W, i, stage, e) ==
    IF stage \in {"transform", "extraction"} /\ W.tasks[i].should_write
    THEN [W EXCEPT !.tasks[i].failed = stage,
                   !.tasks[i].crawl_result = FailedResult(W.tasks[i].url, e),
                   !.tasks[i].pc = "write"]
    ELSE Finish([W EXCEPT !.tasks[i].failed = stage], i,
                Returned(FailedResult(W.tasks[i].url, e)))

\* An exception e raised inside arun's try block by the given stage.
Except(W, i, stage, e) ==
    Finish([W EXCEPT !.tasks[i].failed = stage], i,
           Returned(FailedResult(W.tasks[i].url, e)))

\* A faulty variant: no default: a call without a mode runs with the cache disabled
EffectiveConfigNoDefault(crawler_config, legacy) ==
    LET config0 == IF crawler_config.some THEN crawler_config ELSE FromKwargs(legacy)
    IN  IF config0.cache_mode = None
        THEN [config0 EXCEPT !.cache_mode = "DISABLED"]
        ELSE config0

\* arun, "Handle configuration" to "Default to ENABLED": the config in effect.
\* With a config given, `config = crawler_config` is the caller's object and
\* the assignments to config.cache_mode are made to it.
EffectiveConfig(crawler_config, legacy) ==
    LET config0 == IF crawler_config.some THEN crawler_config ELSE FromKwargs(legacy)
        any_legacy == \/ legacy.bypass_cache \/ legacy.disable_cache
                      \/ legacy.no_cache_read \/ legacy.no_cache_write
        config1 == IF any_legacy /\ config0.cache_mode = None
                   THEN [config0 EXCEPT !.cache_mode =
                            LegacyToCacheMode(legacy.disable_cache, legacy.bypass_cache,
                                              legacy.no_cache_read, legacy.no_cache_write)]
                   ELSE config0
    IN  IF config1.cache_mode = None
        THEN [config1 EXCEPT !.cache_mode = "ENABLED"]
        ELSE config1

\* A faulty variant: the context is built without the crawler's flag
ContextReadNoBypass(config) == ShouldRead(config.cache_mode, FALSE)

\* CacheContext(url, config.cache_mode, self.always_bypass_cache)
ContextRead(config) == ShouldRead(config.cache_mode, always_bypass_cache)
ContextWrite(config) == ShouldWrite(config.cache_mode, always_bypass_cache)

\* arun inside the lock, up to its first await: the cache lookup when
\* cache_context.should_read(), the fetch otherwise.
ArunStart(W, i) ==
    LET t == W.tasks[i]
        config == EffectiveConfig(t.crawler_config, t.legacy)
    IN  [W EXCEPT !.lock = IF @ = 0 THEN i ELSE @,
                  !.tasks[i].n_lock = @ + 1,
                  !.tasks[i].config = config,
                  !.tasks[i].caller_config = IF t.crawler_config.some THEN config ELSE @,
                  !.tasks[i].should_read = ContextRead(config),
                  !.tasks[i].should_write = ContextWrite(config),
                  !.tasks[i].pc = IF ContextRead(config) THEN "read" ELSE "fetch"]

\* A faulty variant: the url is validated inside the lock and the try block
ArunCallValidatesInside(W, i) ==
    IF W.lock > 0
    THEN [W EXCEPT !.tasks[i].pc = "lock"]
    ELSE IF InvalidUrl(W.tasks[i].url)
    THEN Except([W EXCEPT !.lock = IF @ = 0 THEN i ELSE @,
                          !.tasks[i].n_lock = @ + 1], i, "validation", "ValueError")
    ELSE ArunStart(W, i)

\* A faulty variant: arun enters its body without waiting for the lock
ArunCallNoLock(W, i) ==
    IF InvalidUrl(W.tasks[i].url)
    THEN Finish(W, i, Raised("ValueError: Invalid URL"))
    ELSE ArunStart(W, i)

\* arun from its first line: the validation, then `async with self._lock`.
ArunCall(W, i) ==
    IF InvalidUrl(W.tasks[i].url)
    THEN Finish(W, i, Raised("ValueError: Invalid URL"))
    ELSE IF W.lock > 0
    THEN [W EXCEPT !.tasks[i].pc = "lock"]
    ELSE ArunStart(W, i)

\* `if config.screenshot and not screenshot or config.pdf and not pdf`, with
\* screenshot and pdf the legacy arguments of arun.
CacheRejected(config, legacy) ==
    \/ config.screenshot /\ ~legacy.screenshot
    \/ config.pdf /\ ~legacy.pdf

\* extracted_content of a cache hit: None if empty or "[]"
CachedExtracted(stored) ==
    IF ~Truthy(stored.extracted_content) \/ stored.extracted_content = "[]"
    THEN None
    ELSE stored.extracted_content

\* arun after `await async_db_manager.aget_cached_url(url)` gave `stored`:
\* `if cached_result:` to the crawl or to the return of the cached result.
AfterCacheRead(W, i, stored) ==
    LET t == W.tasks[i]
        kept == IF stored.some /\ CacheRejected(t.config, t.legacy)
                THEN NoResult ELSE stored
        html == IF stored.some
                THEN (IF Truthy(stored.html) THEN stored.html ELSE "")
                ELSE None
        W1 == [W EXCEPT !.tasks[i].n_read = @ + 1,
                        !.tasks[i].read_entry = stored,
                        !.tasks[i].cached_result = kept,
                        !.tasks[i].html = html,
                        !.tasks[i].extracted_content =
                            IF stored.some THEN CachedExtracted(stored) ELSE None,
                        !.tasks[i].screenshot_data =
                            IF stored.some THEN stored.screenshot ELSE None,
                        !.tasks[i].pdf_data = IF stored.some THEN stored.pdf ELSE None]
    IN  IF ~kept.some \/ ~Truthy(html)
        THEN [W1 EXCEPT !.tasks[i].pc = "fetch"]
        ELSE Finish(W1, i, Returned([kept EXCEPT !.success = Truthy(html)]))

\* aprocess_html: scrap is what WebScrapingStrategy.scrap did ("ok", "none" for
\* a None result, "css_error", "error"), extract what chunking and the
\* extraction strategy did ("content", "empty_list", "no_sections", "raise").
RunsExtraction(extracted_content, config) ==
    /\ extracted_content = None
    /\ config.extraction_strategy # None
    /\ config.chunking_strategy # None
    /\ config.extraction_strategy # "NoExtractionStrategy"

AProcessHtml(url, html, extracted_content, config, screenshot, pdf_data, scrap, extract) ==
    IF scrap # "ok"
    THEN [raised |-> TRUE, stage |-> "transform", result |-> NoResult]
    ELSE IF RunsExtraction(extracted_content, config) /\ extract = "raise"
    THEN [raised |-> TRUE, stage |-> "extraction", result |-> NoResult]
    ELSE
        LET ec == IF RunsExtraction(extracted_content, config)
                  THEN CASE extract = "content" -> "[extracted]"
                         [] extract = "empty_list" -> "[]"
                         [] OTHER -> ""
                  ELSE extracted_content
        IN  [raised |-> FALSE, stage |-> None,
             result |-> CrawlResult(url, html, TRUE, "",
                                    IF Truthy(screenshot) THEN screenshot ELSE None,
                                    IF Truthy(pdf_data) THEN pdf_data ELSE None, ec)]

\* A faulty variant: every fresh result is written
WritesBackAlways(t) == ~t.cached_result.some

\* `if cache_context.should_write() and not bool(cached_result)`
WritesBack(t) == t.should_write /\ ~t.cached_result.some

\* arun after `await self.crawler_strategy.crawl(url, config=config)` gave
\* response: aprocess_html, the stamps, then the cache write or the return.
AfterFetch(W, i, response, scrap, extract) ==
    LET t == W.tasks[i]
        html == IF Truthy(response.html) THEN response.html ELSE ""
        p == AProcessHtml(t.url, html, t.extracted_content, t.config,
                          response.screenshot, response.pdf_data, scrap, extract)
        crawl_result == [p.result EXCEPT !.success = Truthy(html)]
        W1 == [W EXCEPT !.tasks[i].n_fetch = @ + 1,
                        !.tasks[i].n_transform = @ + 1,
                        !.tasks[i].n_extract =
                            IF scrap = "ok" /\ RunsExtraction(t.extracted_content, t.config)
                            THEN @ + 1 ELSE @,
                        !.tasks[i].html = html,
                        !.tasks[i].screenshot_data = response.screenshot,
                        !.tasks[i].pdf_data = response.pdf_data]
    IN  IF p.raised
        THEN Except(W1, i, p.stage, "ValueError")
        ELSE IF WritesBack(t)
        THEN [W1 EXCEPT !.tasks[i].crawl_result = crawl_result,
                        !.tasks[i].pc = "write"]
        ELSE Finish([W1 EXCEPT !.tasks[i].crawl_result = crawl_result], i,
                    Returned(crawl_result))

(***************************************************************************)
(* The environment: what the external collaborators may answer.            *)
(***************************************************************************)
\* AsyncCrawlResponse of crawler_strategy.crawl, or an exception (ok FALSE).
\* The fetcher renders a screenshot or a PDF only when the config asks.
FetchOutcomes(config) ==
    {[ok |-> FALSE, html |-> None, screenshot |-> None, pdf_data |-> None]}
    \cup {[ok |-> TRUE, html |-> h, screenshot |-> s, pdf_data |-> p] :
             h \in {"<html>", ""},
             s \in IF config.screenshot THEN {"png", None} ELSE {None},
             p \in IF config.pdf THEN {"pdf", None} ELSE {None}}

ScrapOutcomes == {"ok", "none", "css_error", "error"}
ExtractOutcomes == {"content", "empty_list", "no_sections", "raise"}
StoreOutcomes == {"ok", "raise"}

(***************************************************************************)
(* aprocess_html's content extraction block.  A text is the tuple of its   *)
(* characters; a relevance score is an integer number of tenths.           *)
(***************************************************************************)
\* section[:200]
Take(section, n) == SubSeq(section, 1, IF Len(section) < n THEN Len(section) ELSE n)

\* utils.sanitize_input_encode: the text without what UTF-8 cannot encode.
Unencodable == "\\ud800"
SanitizeInputEncode(text) == SelectSeq(text, LAMBDA c : c # Unencodable)

\* content_format, after the fallback of a fit_markdown that is not there.
ContentFormat(input_format, fit_markdown) ==
    IF input_format = "fit_markdown" /\ fit_markdown = <<>> THEN "markdown" ELSE input_format

\* {"markdown": ..., "html": ..., "fit_markdown": ...}.get(content_format, markdown)
Content(content_format, markdown, html, raw_markdown) ==
    CASE content_format = "markdown" -> markdown
      [] content_format = "html" -> html
      [] content_format = "fit_markdown" -> raw_markdown
      [] OTHER -> markdown

Chunking(content_format) ==
    IF content_format = "html" THEN "IdentityChunking" ELSE "chunking_strategy"

\* chunking.chunk(content): IdentityChunking returns the text as one chunk,
\* the configured strategy returns the chunks it makes of the text.
Chunk(chunking, content, chunks) ==
    IF chunking = "IdentityChunking" THEN <<content>> ELSE chunks

TruncatedSections(sections) == [k \in 1..Len(sections) |-> Take(sections[k], PrefixLen)]

\* sorted(self.reranker.rank(q, truncated_sections, top_k=len, return_documents=True),
\*        key=corpus_id): one entry per section, in the order of the sections.
Rank(score, truncated_sections) ==
    [k \in 1..Len(truncated_sections) |->
        [corpus_id |-> k, score |-> score[truncated_sections[k]],
         text |-> truncated_sections[k]]]

\* The k-th smallest of a list of scores.
KthSmallest(scores, k) ==
    CHOOSE v \in {scores[j] : j \in 1..Len(scores)} :
        /\ Cardinality({j \in 1..Len(scores) : scores[j] < v}) < k
        /\ Cardinality({j \in 1..Len(scores) : scores[j] <= v}) >= k

\* A faulty variant of Percentile: method="higher" in place of numpy's default.
PercentileHigher(scores, q) ==
    LET n == Len(scores)
        lo == (q * (n - 1)) \div 100
        r == (q * (n - 1)) % 100
    IN 100 * KthSmallest(scores, IF r = 0 THEN lo + 1 ELSE lo + 2)

\* np.percentile(scores, q) of a non-empty list, times 100: numpy's default
\* method interpolates linearly between the two order statistics around the
\* position q/100 * (n - 1) of the sorted list.
Percentile(scores, q) ==
    LET n == Len(scores)
        lo == (q * (n - 1)) \div 100
        r == (q * (n - 1)) % 100
        below == KthSmallest(scores, lo + 1)
        above == IF r = 0 THEN below ELSE KthSmallest(scores, lo + 2)
    IN 100 * below + r * (above - below)

\* result["score"] > rerank_threshold or date_result["score"] > 0.1
Keep(score, date_score, rerank_threshold) ==
    100 * score > rerank_threshold \/ date_score > DateThreshold

\* filtered_results, as the corpus ids of the results kept.
FilteredResults(reranked, date_reranked, rerank_threshold) ==
    SelectSeq([k \in 1..Len(reranked) |-> k],
              LAMBDA k : Keep(reranked[k].score, date_reranked[k].score, rerank_threshold))

\* {section[:200]: section for section in sections}: a later section
\* replaces an earlier one under the same key.
TruncatedToFull(sections) ==
    [key \in {Take(sections[k], PrefixLen) : k \in 1..Len(sections)} |->
        sections[CHOOSE k \in 1..Len(sections) :
                    /\ Take(sections[k], PrefixLen) = key
                    /\ \A j \in (k + 1)..Len(sections) : Take(sections[j], PrefixLen) # key]]

\* A faulty variant of ExtractedContent: the strategy runs on no section too.
ExtractedContentAlwaysRuns(sections) ==
    [n_run |-> 1, run_sections |-> sections, extracted_content |-> "json"]

\* `if not sections: extracted_content = "" else: strategy.run + json.dumps`
ExtractedContent(sections) ==
    IF Len(sections) = 0
    THEN [n_run |-> 0, run_sections |-> <<>>, extracted_content |-> ""]
    ELSE [n_run |-> 1, run_sections |-> sections, extracted_content |-> "json"]

\* What the reranker and np.percentile do with an empty list of sections:
\* scores come back empty and the percentile is nan, or one of them raises.
EmptyScoresOutcomes == {"nan", "raise"}

NoExtraction ==
    [pc |-> "none", input_format |-> None, raw_markdown |-> <<>>, markdown |-> <<>>,
     fit_markdown |-> <<>>, html |-> <<>>, chunks |-> <<>>, query |-> None,
     query_score |-> <<>>, date_score |-> <<>>,
     content_format |-> None, content |-> <<>>, chunking |-> None, chunked |-> <<>>,
     rerank_threshold |-> None, filtered |-> <<>>, sections |-> <<>>, raised |-> FALSE,
     n_run |-> 0, run_sections |-> <<>>, extracted_content |-> None]

\* The block, from `content_format = ...input_format` to json.dumps.  An
\* exception of the reranker leaves aprocess_html before extracted_content
\* is assigned.
ExtractionBlock(x, empty_scores) ==
    LET content_format == ContentFormat(x.input_format, x.fit_markdown)
        content == Content(content_format, x.markdown, x.html, x.raw_markdown)
        chunking == Chunking(content_format)
        chunked == Chunk(chunking, content, x.chunks)
        head == [x EXCEPT !.pc = "done", !.content_format = content_format,
                          !.content = content, !.chunking = chunking,
                          !.chunked = chunked]
        truncated_sections == TruncatedSections(chunked)
        reranked == Rank(x.query_score, truncated_sections)
        date_reranked == Rank(x.date_score, truncated_sections)
        rerank_threshold ==
            IF Len(chunked) = 0 THEN "nan"
            ELSE Percentile([k \in 1..Len(reranked) |-> reranked[k].score], PercentileRank)
        filtered == IF Len(chunked) = 0 THEN <<>>
                    ELSE FilteredResults(reranked, date_reranked, rerank_threshold)
        truncated_to_full == TruncatedToFull(chunked)
        sections ==
            IF Truthy(x.query)
            THEN [k \in 1..Len(filtered) |-> truncated_to_full[reranked[filtered[k]].text]]
            ELSE chunked
        out == ExtractedContent(sections)
    IN  IF Truthy(x.query) /\ Len(chunked) = 0 /\ empty_scores = "raise"
        THEN [head EXCEPT !.raised = TRUE]
        ELSE [head EXCEPT !.rerank_threshold = IF Truthy(x.query) THEN rerank_threshold ELSE @,
                          !.filtered = IF Truthy(x.query) THEN filtered ELSE @,
                          !.sections = sections,
                          !.n_run = out.n_run,
                          !.run_sections = out.run_sections,
                          !.extracted_content = out.extracted_content]

(***************************************************************************)
(* The steps of one arun invocation, each from one await to the next.      *)
(***************************************************************************)
\* `cached_result = await async_db_manager.aget_cached_url(url)` returns or raises
CacheRead(i) ==
    /\ tasks[i].pc = "read"
    /\ \E outcome \in StoreOutcomes :
         Apply(IF outcome = "raise"
               THEN Except([World EXCEPT !.tasks[i].n_read = @ + 1], i,
                           "cache_read", "CacheError")
               ELSE AfterCacheRead(World, i, cache[tasks[i].url]))
    /\ UNCHANGED <<extraction, always_bypass_cache, cache, now, phase, urls, batch_config, results>>

\* `async_response = await self.crawler_strategy.crawl(url, config=config)`
\* returns or raises, then aprocess_html runs
Fetch(i) ==
    /\ tasks[i].pc = "fetch"
    /\ \E response \in FetchOutcomes(tasks[i].config) :
         IF ~response.ok
         THEN Apply(Except([World EXCEPT !.tasks[i].n_fetch = @ + 1], i,
                           "fetch", "FetchError"))
         ELSE \E scrap \in ScrapOutcomes :
                \E extract \in IF scrap = "ok" /\ RunsExtraction(tasks[i].extracted_content,
                                                                 tasks[i].config)
                                THEN ExtractOutcomes ELSE {"skipped"} :
                  Apply(AfterFetch(World, i, response, scrap, extract))
    /\ UNCHANGED <<extraction, always_bypass_cache, cache, now, phase, urls, batch_config, results>>

\* `await async_db_manager.acache_url(crawl_result)` returns or raises
CacheWrite(i) ==
    /\ tasks[i].pc = "write"
    /\ \E outcome \in StoreOutcomes :
         IF outcome = "raise"
         THEN /\ Apply(Except([World EXCEPT !.tasks[i].n_write = @ + 1], i,
                              "cache_write", "CacheError"))
              /\ cache' = cache
         ELSE /\ Apply(Finish([World EXCEPT !.tasks[i].n_write = @ + 1], i,
                              Returned(tasks[i].crawl_result)))
              /\ cache' = [cache EXCEPT ![tasks[i].crawl_result.url] =
                                           tasks[i].crawl_result]
    /\ UNCHANGED <<extraction, always_bypass_cache, now, phase, urls, batch_config, results>>

\* `async with self._lock` of a task that found the lock held: it acquires.
LockAcquired(i) ==
    /\ tasks[i].pc = "lock"
    /\ lock = 0
    /\ Apply(ArunStart(World, i))
    /\ UNCHANGED <<extraction, always_bypass_cache, cache, now, phase, urls, batch_config, results>>

(***************************************************************************)
(* SpecRun: one crawler, the cache store as earlier runs left it, and any  *)
(* sequence of direct arun calls, one at a time.                           *)
(***************************************************************************)
OptionalModes == CacheModes \cup {None}
ExtractionStrategies == {None, "NoExtractionStrategy", "Strategy"}

\* The deprecated cache flags of a call:
\* <<bypass_cache, disable_cache, no_cache_read, no_cache_write>>
NoFlags == <<FALSE, FALSE, FALSE, FALSE>>
LegacyFlagSets ==
    {NoFlags, <<TRUE, FALSE, FALSE, FALSE>>, <<FALSE, TRUE, FALSE, FALSE>>,
     <<FALSE, FALSE, TRUE, FALSE>>, <<FALSE, FALSE, FALSE, TRUE>>,
     <<FALSE, FALSE, TRUE, TRUE>>}

\* <<cache mode, deprecated flags>> of a call: a mode alone, the flags alone
\* (or nothing), or a mode together with a flag.
CacheSetups ==
    {<<m, NoFlags>> : m \in CacheModes}
    \cup {<<None, f>> : f \in LegacyFlagSets}
    \cup {<<"READ_ONLY", <<TRUE, FALSE, FALSE, FALSE>>>>}

\* <<config.pdf, legacy pdf>> of a call that passes a config
PdfDemands == {<<FALSE, FALSE>>, <<TRUE, FALSE>>, <<TRUE, TRUE>>}

\* arun(url, config=RunConfig(...), <deprecated flags, screenshot, pdf>)
CallsWithConfig ==
    {<<RunConfig(c[1], s, p[1], e, "RegexChunking", 0, 0, 0),
       LegacyArgs(None, c[2][1], c[2][2], c[2][3], c[2][4], ls, p[2], None)>> :
       c \in CacheSetups, s \in BOOLEAN, ls \in BOOLEAN, p \in PdfDemands,
       e \in ExtractionStrategies}

\* arun(url, <legacy arguments>)
CallsWithoutConfig ==
    {<<NoConfig, LegacyArgs(c[1], c[2][1], c[2][2], c[2][3], c[2][4], ls, lp, e)>> :
       c \in CacheSetups, ls \in BOOLEAN, lp \in BOOLEAN,
       e \in {None, "Strategy"}}

\* The calls of SpecRun: any arguments with a url, the empty url and the
\* url that is not a str as they are.
RunCalls ==
    {<<UrlA1, a[1], a[2]>> : a \in CallsWithConfig \cup CallsWithoutConfig}
    \cup {<<EmptyUrl, NoConfig, DefaultLegacy>>, <<NonStringUrl, NoConfig, DefaultLegacy>>}

\* What an earlier run may have left in the store for a url: nothing, a
\* result with markup, or a result without markup (the case of `or not html`).
StoredBefore(url) ==
    {NoResult, CrawlResult(url, "<html>", TRUE, "", None, None, None),
     CrawlResult(url, "", FALSE, "", None, None, None)}

InitRun ==
    /\ \E bypass_new \in BOOLEAN, bypass_deprecated \in {None, "True", "False"} :
         always_bypass_cache = InitBypass(bypass_new, bypass_deprecated)
    /\ \E thread_safe \in BOOLEAN : lock = InitLock(thread_safe)
    /\ domain_last_hit = [o \in Origins |-> -1]
    /\ cache \in {[u \in ValidUrls |-> IF u = UrlA1 THEN e ELSE NoResult] :
                    e \in StoredBefore(UrlA1)}
    /\ now = 0
    /\ tasks = [i \in Tasks |-> IdleTask]
    /\ phase = "idle"
    /\ urls = <<>>
    /\ batch_config = NoConfig
    /\ semaphore = 0
    /\ done_order = <<>>
    /\ results = <<>>
    /\ extraction = NoExtraction

\* The caller awaits crawler.arun(url, config, ...).
Call ==
    /\ phase = "idle"
    /\ tasks[1].pc = "idle"
    /\ \E c \in RunCalls :
         Apply(ArunCall([World EXCEPT !.tasks[1] =
                            NewTask(c[1], c[2], c[3], NoConfig, FALSE)], 1))
    /\ UNCHANGED <<extraction, always_bypass_cache, cache, now, phase, urls, batch_config, results>>

\* arun's `return` (or the exception) has reached the caller: the frame of
\* the invocation is gone.
Return ==
    /\ phase = "idle"
    /\ tasks[1].pc = "done"
    /\ tasks' = [tasks EXCEPT ![1] = IdleTask]
    /\ UNCHANGED <<extraction, always_bypass_cache, lock, domain_last_hit, cache, now, phase,
                   urls, batch_config, semaphore, done_order, results>>

NextRun ==
    \/ Call
    \/ CacheRead(1)
    \/ Fetch(1)
    \/ CacheWrite(1)
    \/ Return

SpecRun == InitRun /\ [][NextRun]_vars

(***************************************************************************)
(* arun_many.                                                              *)
(***************************************************************************)
\* arun_many's "Handle configuration" with a config given: the deprecated
\* bypass_cache sets the mode of a config that has none.
ManyConfig(crawler_config, bypass_cache) ==
    IF bypass_cache /\ crawler_config.cache_mode = None
    THEN [crawler_config EXCEPT !.cache_mode = "BYPASS"]
    ELSE crawler_config

\* `semaphore_count = config.semaphore_count or 5`
SemaphoreCount(config) ==
    IF config.semaphore_count # 0 THEN config.semaphore_count
    ELSE DefaultSemaphoreCount

\* A faulty variant: arun is called without waiting for a permit
EnterWithoutPermit(W, i) ==
    ArunCall([W EXCEPT !.semaphore = @ - 1, !.tasks[i].dispatched = now], i)

\* crawl_with_semaphore, `async with semaphore:` then
\* self.arun(url, crawler_config=config, user_agent=..., query=...)
EnterSemaphore(W, i) ==
    IF W.semaphore > 0
    THEN ArunCall([W EXCEPT !.semaphore = @ - 1, !.tasks[i].dispatched = now], i)
    ELSE [W EXCEPT !.tasks[i].pc = "sem"]

\* `self._domain_last_hit[domain] = current_time`
RecordHit(W, i) ==
    [W EXCEPT !.domain_last_hit[Netloc(W.tasks[i].url)] = W.tasks[i].current_time]

\* `if domain in self._domain_last_hit` and `time_since_last < mean_delay`
MustSleep(last_hit, current_time, mean_delay) ==
    last_hit # -1 /\ current_time - last_hit < mean_delay

\* A faulty variant: one ledger entry for all origins: a recent hit of any
\* origin delays the task
CrawlWithSemaphoreAnyOrigin(W, i) ==
    LET t == W.tasks[i]
        W1 == [W EXCEPT !.tasks[i].current_time = now,
                        !.tasks[i].last_hit = W.domain_last_hit[Netloc(t.url)]]
    IN  IF \E o \in Origins : MustSleep(W.domain_last_hit[o], now, t.kwargs.mean_delay)
        THEN [W1 EXCEPT !.tasks[i].pc = "sleep",
                        !.tasks[i].slept = TRUE,
                        !.tasks[i].wake_at = now + t.kwargs.mean_delay]
        ELSE EnterSemaphore(RecordHit(W1, i), i)

\* crawl_with_semaphore from its first line to its first suspension: the
\* sleep of the rate limiter, or what follows it.  asyncio.sleep(mean_delay +
\* random.uniform(0, max_range)) ends at wake_at or any time after it.
\* last_hit is self._domain_last_hit[domain] as the task read it.
CrawlWithSemaphore(W, i) ==
    LET t == W.tasks[i]
        W1 == [W EXCEPT !.tasks[i].current_time = now,
                        !.tasks[i].last_hit = W.domain_last_hit[Netloc(t.url)]]
    IN  IF MustSleep(W.domain_last_hit[Netloc(t.url)], now, t.kwargs.mean_delay)
        THEN [W1 EXCEPT !.tasks[i].pc = "sleep",
                        !.tasks[i].slept = TRUE,
                        !.tasks[i].wake_at = now + t.kwargs.mean_delay]
        ELSE EnterSemaphore(RecordHit(W1, i), i)

\* gather starts the tasks in the order of urls, each up to its first
\* suspension.
RECURSIVE StartTasks(_, _, _)
StartTasks(W, i, n) ==
    IF i > n THEN W ELSE StartTasks(CrawlWithSemaphore(W, i), i + 1, n)

\* the arun call of crawl_with_semaphore: the config goes to **kwargs as
\* crawler_config, arun's own config parameter stays None
ManyTask(url, config) == NewTask(url, NoConfig, DefaultLegacy, config, TRUE)

\* A faulty variant: the results in the order the tasks completed
GatherByCompletion(W, n) ==
    [i \in 1..n |-> IF i <= Len(W.done_order)
                    THEN W.tasks[W.done_order[i]].ret ELSE NoRet]

\* asyncio.gather(*tasks, return_exceptions=True): the result of task i at
\* position i, an exception as the exception
Gather(W, n) == [i \in 1..n |-> W.tasks[i].ret]

\* A faulty variant: gather without return_exceptions: over at the first exception
GatherFailFast(W, n) ==
    \/ \A i \in 1..n : W.tasks[i].pc = "done"
    \/ \E i \in 1..n : W.tasks[i].ret.kind = "raise"

\* `await asyncio.gather(...)` is over when every task is done, whatever it
\* returned or raised
GatherComplete(W, n) == \A i \in 1..n : W.tasks[i].pc = "done"

\* `result if not isinstance(result, Exception) else str(result)`
Marker(ret) == IF ret.kind = "raise" THEN [ret EXCEPT !.kind = "str"] ELSE ret

\* The inputs of a batch: config.semaphore_count (0 when unset),
\* config.mean_delay, the urls and the deprecated bypass_cache.
SemaphoreCounts == {0, 1}
MeanDelays == {1}
BatchUrls == {UrlA1, UrlB1, EmptyUrl}
BatchBypass == {FALSE}

\* A config with no cache mode and any semaphore count, or one with the
\* cache mode BYPASS.
BatchConfigs ==
    {RunConfig(None, FALSE, FALSE, None, "RegexChunking", sc, md, 0) :
       sc \in SemaphoreCounts, md \in MeanDelays}
    \cup {RunConfig("BYPASS", FALSE, FALSE, None, "RegexChunking", 1, md, 0) :
             md \in MeanDelays}

\* The caller awaits crawler.arun_many(urls, config): up to the await of gather.
StartBatch ==
    /\ phase = "idle"
    /\ \E us \in [1..MaxBatchLen -> BatchUrls], cc \in BatchConfigs,
          bypass_cache \in BatchBypass :
         LET config == ManyConfig(cc, bypass_cache)
         IN  /\ now + config.mean_delay <= MaxTime
             /\ urls' = us
             /\ batch_config' = config
             /\ Apply(StartTasks([World EXCEPT
                                     !.tasks = [i \in Tasks |-> ManyTask(us[i], config)],
                                     !.semaphore = SemaphoreCount(config),
                                     !.done_order = <<>>],
                                 1, MaxBatchLen))
    /\ phase' = "running"
    /\ UNCHANGED <<extraction, always_bypass_cache, cache, now, results>>

\* asyncio.sleep of the rate limiter is over: the ledger write, then the semaphore
Wake(i) ==
    /\ tasks[i].pc = "sleep"
    /\ now >= tasks[i].wake_at
    /\ Apply(EnterSemaphore(RecordHit(World, i), i))
    /\ UNCHANGED <<extraction, always_bypass_cache, cache, now, phase, urls, batch_config, results>>

\* a task waiting in `async with semaphore` gets a permit
SemaphoreAcquired(i) ==
    /\ tasks[i].pc = "sem"
    /\ semaphore > 0
    /\ Apply(ArunCall([World EXCEPT !.semaphore = @ - 1,
                                    !.tasks[i].dispatched = now], i))
    /\ UNCHANGED <<extraction, always_bypass_cache, cache, now, phase, urls, batch_config, results>>

\* gather is complete: arun_many returns the list
ManyReturn ==
    /\ phase = "running"
    /\ GatherComplete(World, Len(urls))
    /\ results' = [i \in 1..Len(urls) |-> Marker(Gather(World, Len(urls))[i])]
    /\ phase' = "returned"
    /\ UNCHANGED <<extraction, always_bypass_cache, lock, domain_last_hit, cache, now, tasks,
                   urls, batch_config, semaphore, done_order>>

\* time passes
Tick ==
    /\ now < MaxTime
    /\ now' = now + 1
    /\ UNCHANGED <<extraction, always_bypass_cache, lock, domain_last_hit, cache, tasks, phase,
                   urls, batch_config, semaphore, done_order, results>>

\* The ledger as construction leaves it, or as an earlier batch that has just
\* dispatched to a.example left it.
LedgerBefore ==
    {[o \in Origins |-> -1],
     [o \in Origins |-> IF o = "a.example" THEN 0 ELSE -1]}

\* SpecMany: one crawler and one arun_many call on it.
InitMany ==
    /\ \E bypass_new \in BOOLEAN, bypass_deprecated \in {None, "True", "False"} :
         always_bypass_cache = InitBypass(bypass_new, bypass_deprecated)
    /\ \E thread_safe \in BOOLEAN : lock = InitLock(thread_safe)
    /\ domain_last_hit \in LedgerBefore
    /\ cache = [u \in ValidUrls |-> NoResult]
    /\ now = 0
    /\ tasks = [i \in Tasks |-> IdleTask]
    /\ phase = "idle"
    /\ urls = <<>>
    /\ batch_config = NoConfig
    /\ semaphore = 0
    /\ done_order = <<>>
    /\ results = <<>>
    /\ extraction = NoExtraction

NextMany ==
    \/ StartBatch
    \/ \E i \in Tasks : Wake(i)
    \/ \E i \in Tasks : SemaphoreAcquired(i)
    \/ \E i \in Tasks : LockAcquired(i)
    \/ \E i \in Tasks : CacheRead(i)
    \/ \E i \in Tasks : Fetch(i)
    \/ \E i \in Tasks : CacheWrite(i)
    \/ ManyReturn
    \/ Tick

SpecMany == InitMany /\ [][NextMany]_vars

\* The event loop does not stop while a task can run: an awaited fetch,
\* store call or sleep that can finish, or a waiter that can be woken, is
\* eventually served, and time passes.
Fairness == WF_vars(NextMany)

SpecManyFair == SpecMany /\ Fairness

(***************************************************************************)
(* SpecInstances: crawler instances constructed one after the other in one *)
(* process, each running one arun_many call.  _domain_last_hit is an        *)
(* attribute of the class and __init__ does not assign it; the cache store *)
(* is the module's async_db_manager.                                       *)
(***************************************************************************)
\* AsyncWebCrawler(...) once more: the caller goes on with the new instance
NewCrawler ==
    /\ phase = "returned"
    /\ \E bypass_new \in BOOLEAN, bypass_deprecated \in {None, "True", "False"} :
         always_bypass_cache' = InitBypass(bypass_new, bypass_deprecated)
    /\ \E thread_safe \in BOOLEAN : lock' = InitLock(thread_safe)
    /\ tasks' = [i \in Tasks |-> IdleTask]
    /\ phase' = "idle"
    /\ urls' = <<>>
    /\ batch_config' = NoConfig
    /\ semaphore' = 0
    /\ done_order' = <<>>
    /\ results' = <<>>
    /\ UNCHANGED <<extraction, domain_last_hit, cache, now>>

\* the first instance of the process
InitInstances ==
    /\ InitMany
    /\ domain_last_hit = [o \in Origins |-> -1]

NextInstances ==
    \/ StartBatch
    \/ \E i \in Tasks : Wake(i)
    \/ \E i \in Tasks : SemaphoreAcquired(i)
    \/ \E i \in Tasks : LockAcquired(i)
    \/ \E i \in Tasks : CacheRead(i)
    \/ \E i \in Tasks : Fetch(i)
    \/ \E i \in Tasks : CacheWrite(i)
    \/ ManyReturn
    \/ Tick
    \/ NewCrawler

SpecInstances == InitInstances /\ [][NextInstances]_vars

(***************************************************************************)
(* SpecExtract: one run of the content extraction block of aprocess_html,  *)
(* on any input format, markdown result, chunk list, query and scores.     *)
(***************************************************************************)
Short == <<"s">>
LongX == [k \in 1..(PrefixLen + 1) |-> IF k <= PrefixLen THEN "a" ELSE "x"]
LongY == [k \in 1..(PrefixLen + 1) |-> IF k <= PrefixLen THEN "a" ELSE "y"]
ChunkTexts == {Short, LongX, LongY}
RawMarkup == <<"h">>

\* The chunk lists a chunking strategy may return, and the list of ten
\* chunks of which the first is the one that stands out.
TenChunks == [k \in 1..10 |-> IF k = 1 THEN LongX ELSE Short]
ChunkLists == UNION {[1..n -> ChunkTexts] : n \in 0..MaxChunks} \cup {TenChunks}

InputFormats == {"markdown", "html", "fit_markdown", "text"}
RawMarkdowns == {<<"m">>, <<"m", Unencodable>>}
FitMarkdowns == {<<>>, <<"f">>}
Queries == {None, "", "q"}

\* What the reranker answers for a truncated section, in tenths.
Keys == {Take(c, PrefixLen) : c \in ChunkTexts \cup {RawMarkup}}
QueryScores == [Keys -> {1, 9}]
DateScores == [Keys -> {0, 1, 2}]
NoScores == [key \in Keys |-> 0]

ExtractionInputs ==
    {[NoExtraction EXCEPT !.pc = "start", !.input_format = f, !.raw_markdown = m,
                          !.markdown = SanitizeInputEncode(m), !.fit_markdown = fit,
                          !.html = RawMarkup, !.chunks = c, !.query = q[1],
                          !.query_score = q[2], !.date_score = q[3]] :
        f \in InputFormats, m \in RawMarkdowns, fit \in FitMarkdowns, c \in ChunkLists,
        q \in ({None, ""} \X {NoScores} \X {NoScores}) \cup ({"q"} \X QueryScores \X DateScores)}

InitExtract ==
    /\ extraction \in ExtractionInputs
    /\ always_bypass_cache = FALSE
    /\ lock = -1
    /\ domain_last_hit = [o \in Origins |-> -1]
    /\ cache = [u \in ValidUrls |-> NoResult]
    /\ now = 0
    /\ tasks = [i \in Tasks |-> IdleTask]
    /\ phase = "idle"
    /\ urls = <<>>
    /\ batch_config = NoConfig
    /\ semaphore = 0
    /\ done_order = <<>>
    /\ results = <<>>

\* aprocess_html runs the block without awaiting anything.
ExtractContent ==
    /\ extraction.pc = "start"
    /\ \E empty_scores \in EmptyScoresOutcomes :
         extraction' = ExtractionBlock(extraction, empty_scores)
    /\ UNCHANGED <<always_bypass_cache, lock, domain_last_hit, cache, now, tasks, phase,
                   urls, batch_config, semaphore, done_order, results>>

NextExtract == ExtractContent

SpecExtract == InitExtract /\ [][NextExtract]_vars

(***************************************************************************)
(* Properties.                                                             *)
(***************************************************************************)
\* task i is an arun invocation that is over
Over(i) == tasks[i].pc = "done"

\* the invocation of task i gave the stored result back without fetching
ServedFromCache(i) ==
    /\ Over(i)
    /\ tasks[i].ret.kind = "result"
    /\ tasks[i].failed = None
    /\ tasks[i].n_fetch = 0

\* C1: for a non-empty url, whatever the cache lookup, the fetcher, the
\* transform and the extraction do, arun does not raise: it returns a
\* CrawlResult, with success false when one of those stages failed.
C1_NeverRaises ==
    \A i \in Tasks :
        Over(i) /\ ~InvalidUrl(tasks[i].url) =>
            /\ tasks[i].ret.kind = "result"
            /\ tasks[i].ret.result.some
            /\ tasks[i].ret.result.url = tasks[i].url
            /\ tasks[i].failed \in {"cache_read", "fetch", "transform", "extraction"}
                  => ~tasks[i].ret.result.success

C1_Witness ==
    /\ Over(1)
    /\ tasks[1].failed = "extraction"
    /\ tasks[1].n_read = 1
    /\ tasks[1].ret.kind = "result"
    /\ ~tasks[1].ret.result.success

\* C2: every CrawlResult that arun returns with success false carries a
\* non-empty error message.
C2_FailedHasMessage ==
    \A i \in Tasks :
        Over(i) /\ tasks[i].ret.kind = "result" /\ ~tasks[i].ret.result.success
            => Truthy(tasks[i].ret.result.error_message)

\* the decision table of the cache context
DecisionTable(mode, global_bypass) ==
    IF global_bypass THEN <<FALSE, FALSE>>
    ELSE CASE mode = "ENABLED" -> <<TRUE, TRUE>>
           [] mode = "DISABLED" -> <<FALSE, FALSE>>
           [] mode = "BYPASS" -> <<FALSE, TRUE>>
           [] mode = "READ_ONLY" -> <<TRUE, FALSE>>
           [] mode = "WRITE_ONLY" -> <<FALSE, TRUE>>

\* the cache mode the caller of task i supplied, None if none
SuppliedMode(i) ==
    IF tasks[i].crawler_config.some THEN tasks[i].crawler_config.cache_mode
    ELSE tasks[i].legacy.cache_mode

\* the caller of task i set one of the deprecated cache flags
SuppliedFlag(i) ==
    \/ tasks[i].legacy.bypass_cache \/ tasks[i].legacy.disable_cache
    \/ tasks[i].legacy.no_cache_read \/ tasks[i].legacy.no_cache_write

\* task i is past arun's creation of the cache context
Decided(i) == tasks[i].pc \in {"read", "fetch", "write"} \/ (Over(i) /\ tasks[i].ret.kind = "result")

\* C3: the cache decision of arun is the table's for the mode in effect and
\* the crawler's bypass flag; the mode in effect is the supplied one, and
\* ENABLED when neither a mode nor a deprecated flag is supplied.
C3_DecisionTable ==
    \A i \in Tasks :
        Decided(i) =>
            /\ <<tasks[i].should_read, tasks[i].should_write>>
                  = DecisionTable(tasks[i].config.cache_mode, always_bypass_cache)
            /\ SuppliedMode(i) # None => tasks[i].config.cache_mode = SuppliedMode(i)
            /\ SuppliedMode(i) = None /\ ~SuppliedFlag(i)
                  => tasks[i].config.cache_mode = "ENABLED"
            /\ tasks[i].n_read > 0 \/ tasks[i].pc = "read"
                  => DecisionTable(tasks[i].config.cache_mode, always_bypass_cache)[1]
            /\ tasks[i].n_write > 0 \/ tasks[i].pc = "write"
                  => DecisionTable(tasks[i].config.cache_mode, always_bypass_cache)[2]

C3_Witness ==
    /\ ~always_bypass_cache
    /\ Over(1)
    /\ SuppliedMode(1) = None
    /\ ~SuppliedFlag(1)
    /\ tasks[1].config.cache_mode = "ENABLED"
    /\ tasks[1].n_read = 1
    /\ tasks[1].n_write = 1

\* C4: on a crawler whose global bypass flag is set, no arun call reads the
\* cache store or writes to it, whatever its cache mode, and every call that
\* returns a result without failing has fetched.
C4_GlobalBypass ==
    always_bypass_cache =>
        \A i \in Tasks :
            /\ tasks[i].n_read = 0
            /\ tasks[i].n_write = 0
            /\ tasks[i].pc \notin {"read", "write"}
            /\ Over(i) /\ tasks[i].ret.kind = "result" => tasks[i].n_fetch = 1

C4_Witness ==
    /\ always_bypass_cache
    /\ Over(1)
    /\ tasks[1].crawler_config.cache_mode = "ENABLED"
    /\ cache[tasks[1].url].some
    /\ tasks[1].n_fetch = 1
    /\ tasks[1].ret.result.success

\* the stored result the cache gave task i is invalid for its request
InvalidHit(i) ==
    /\ tasks[i].read_entry.some
    /\ \/ ~Truthy(tasks[i].read_entry.html)
       \/ tasks[i].config.screenshot /\ ~Truthy(tasks[i].read_entry.screenshot)
       \/ tasks[i].config.pdf /\ ~Truthy(tasks[i].read_entry.pdf)

\* C5: a stored result that lacks markup, or lacks the screenshot or PDF
\* the request demands (through the config or the legacy arguments), is
\* never what arun answers with: arun fetches.
C5_InvalidHitRefetches ==
    \A i \in Tasks : Over(i) /\ InvalidHit(i) => ~ServedFromCache(i)

\* C6: arun writes to the cache store only if should_write holds and it has
\* fetched; a result served from the cache is not written back.
C6_WriteBackOnlyFresh ==
    \A i \in Tasks :
        /\ tasks[i].n_write > 0 \/ tasks[i].pc = "write"
              => tasks[i].should_write /\ tasks[i].n_fetch = 1
        /\ ServedFromCache(i) => tasks[i].n_write = 0

C6_Witness ==
    /\ Over(1)
    /\ tasks[1].n_write = 1
    /\ tasks[1].n_fetch = 1
    /\ tasks[1].should_write
    /\ tasks[1].read_entry.some
    /\ cache[tasks[1].url] = tasks[1].ret.result

\* C7: arun_many returns one element for each url, in the order of urls:
\* element i is what the task of url i gave, whatever the order of completion.
C7_InputOrder ==
    phase = "returned" =>
        /\ Len(results) = Len(urls)
        /\ \A i \in 1..Len(urls) :
              /\ results[i].result = tasks[i].ret.result
              /\ InvalidUrl(urls[i]) <=> results[i].kind = "str"
              /\ ~InvalidUrl(urls[i]) =>
                    results[i].kind = "result" /\ results[i].result.url = urls[i]

C7_Witness ==
    /\ phase = "returned"
    /\ done_order = <<2, 1>>
    /\ urls[1] # urls[2]
    /\ results[1].kind = "result" /\ results[1].result.success
    /\ results[2].kind = "result" /\ ~results[2].result.success

\* C8: a fault of one url does not abort the batch: at the return every
\* task is over, an empty url gives the text of its error at its position,
\* a failed crawl a failed result, and the other urls their own results.
C8_FaultIsolation ==
    phase = "returned" =>
        \A i \in 1..Len(urls) :
            /\ Over(i)
            /\ results[i].kind \in {"result", "str"}
            /\ InvalidUrl(urls[i]) =>
                  results[i].kind = "str" /\ results[i].exc = "ValueError: Invalid URL"
            /\ tasks[i].failed # None =>
                  results[i].kind = "result" /\ ~results[i].result.success
            /\ ~InvalidUrl(urls[i]) /\ tasks[i].failed = None =>
                  /\ results[i].kind = "result"
                  /\ results[i].result.html = tasks[i].html
                  /\ results[i].result.success = Truthy(tasks[i].html)

C8_Witness ==
    /\ phase = "returned"
    /\ InvalidUrl(urls[1])
    /\ results[1].kind = "str"
    /\ done_order = <<1, 2>>
    /\ results[2].kind = "result"
    /\ results[2].result.success
    /\ tasks[2].n_fetch = 1

\* the tasks that are inside arun
InArun == {i \in Tasks : tasks[i].pc \in {"lock", "read", "fetch", "write"}}

\* C9: in a batch the arun invocations in progress are never more than
\* config.semaphore_count, or 5 when that is unset or zero.
C9_ConcurrencyBound ==
    phase = "running" =>
        Cardinality(InArun) <= IF batch_config.semaphore_count = 0 THEN 5
                               ELSE batch_config.semaphore_count

C9_Witness ==
    /\ phase = "running"
    /\ batch_config.semaphore_count = 1
    /\ tasks[1].pc = "sem"
    /\ tasks[2].pc = "fetch"

\* C10: two dispatches to one origin (arun called for a url of that origin)
\* are at least mean_delay apart.
C10_DispatchSeparation ==
    \A i \in Tasks, j \in Tasks :
        /\ i # j
        /\ tasks[i].dispatched # -1 /\ tasks[j].dispatched # -1
        /\ ~InvalidUrl(tasks[i].url) /\ ~InvalidUrl(tasks[j].url)
        /\ Netloc(tasks[i].url) = Netloc(tasks[j].url)
        /\ tasks[i].dispatched <= tasks[j].dispatched
        => tasks[j].dispatched - tasks[i].dispatched >= batch_config.mean_delay

\* C11: the rate limiter suspends a task only for its own origin: a task
\* sleeps only if the ledger entry of its own origin, as the task read it,
\* exists and is less than mean_delay old; a task whose origin has no entry
\* does not sleep, whatever the entries and the waiting tasks of the other
\* origins.
C11_OriginIsolation ==
    \A i \in Tasks :
        tasks[i].via_many =>
            /\ tasks[i].slept <=>
                  /\ tasks[i].last_hit # -1
                  /\ tasks[i].current_time - tasks[i].last_hit < batch_config.mean_delay
            /\ tasks[i].pc = "sleep" =>
                  tasks[i].slept /\ domain_last_hit[Netloc(tasks[i].url)] # -1

C11_Witness ==
    /\ phase = "running"
    /\ Netloc(tasks[1].url) = "a.example"
    /\ tasks[1].pc = "sleep"
    /\ Netloc(tasks[2].url) = "b.example"
    /\ ~tasks[2].slept
    /\ tasks[2].last_hit = -1
    /\ tasks[2].dispatched = tasks[2].current_time
    /\ tasks[2].pc \in {"read", "fetch"}

\* C12: arun called with an empty url or a url that is not a str raises the
\* validation error and returns no CrawlResult, and it has done nothing by
\* then: the lock block is not entered, the lock is not held, the cache is
\* not read, nothing is fetched, transformed or written.
C12_ValidationFirst ==
    \A i \in Tasks :
        Over(i) /\ InvalidUrl(tasks[i].url) =>
            /\ tasks[i].ret.kind = "raise"
            /\ tasks[i].ret.exc = "ValueError: Invalid URL"
            /\ ~tasks[i].ret.result.some
            /\ tasks[i].n_lock = 0
            /\ lock # i
            /\ tasks[i].n_read = 0
            /\ tasks[i].n_fetch = 0
            /\ tasks[i].n_transform = 0
            /\ tasks[i].n_write = 0

C12_Witness ==
    /\ Over(1)
    /\ tasks[1].url = NonStringUrl
    /\ tasks[1].ret.kind = "raise"
    /\ lock = 0

\* C13: a failure of the cache store during arun's read is a cache miss:
\* arun goes on to fetch and does not return the failed result.
C13_ReadFailureIsMiss ==
    \A i \in Tasks :
        Over(i) /\ tasks[i].failed = "cache_read" =>
            /\ tasks[i].n_fetch = 1
            /\ tasks[i].ret.result.error_message = ""

\* C14: a failure of the cache store during arun's write-back is swallowed:
\* arun returns the result it has assembled from the fetch, successful when
\* the fetch gave markup.
C14_WriteFailureSwallowed ==
    \A i \in Tasks :
        Over(i) /\ tasks[i].n_write = 1 /\ Truthy(tasks[i].html) =>
            /\ tasks[i].ret.kind = "result"
            /\ tasks[i].ret.result = tasks[i].crawl_result
            /\ tasks[i].ret.result.success

\* C15: the config object the caller passed to arun has, during and after
\* the call, the field values it had when it was passed.
C15_CallerConfigUnchanged ==
    \A i \in Tasks :
        tasks[i].crawler_config.some => tasks[i].caller_config = tasks[i].crawler_config

\* C16: in one arun invocation the cache read, the fetch, the transform and
\* the cache write happen at most once each and in this order, and a failed
\* step ends the invocation with the failed result and no later step.
C16_StepOrder ==
    \A i \in Tasks :
        /\ tasks[i].n_read <= 1 /\ tasks[i].n_fetch <= 1
        /\ tasks[i].n_transform <= 1 /\ tasks[i].n_write <= 1
        /\ tasks[i].pc = "read" =>
              /\ tasks[i].n_read = 0 /\ tasks[i].n_fetch = 0
              /\ tasks[i].n_transform = 0 /\ tasks[i].n_write = 0
        /\ tasks[i].pc = "fetch" =>
              /\ tasks[i].n_fetch = 0 /\ tasks[i].n_transform = 0 /\ tasks[i].n_write = 0
        /\ tasks[i].pc = "write" =>
              /\ tasks[i].n_fetch = 1 /\ tasks[i].n_transform = 1 /\ tasks[i].n_write = 0
        /\ tasks[i].n_fetch = 1 /\ tasks[i].should_read => tasks[i].n_read = 1
        /\ tasks[i].n_transform = 1 => tasks[i].n_fetch = 1
        /\ tasks[i].n_write = 1 => tasks[i].n_transform = 1
        /\ tasks[i].failed = "cache_read" =>
              tasks[i].n_fetch = 0 /\ tasks[i].n_transform = 0 /\ tasks[i].n_write = 0
        /\ tasks[i].failed = "fetch" => tasks[i].n_transform = 0 /\ tasks[i].n_write = 0
        /\ tasks[i].failed \in {"transform", "extraction"} => tasks[i].n_write = 0
        /\ tasks[i].failed # None =>
              /\ Over(i)
              /\ tasks[i].ret.kind = "result"
              /\ ~tasks[i].ret.result.success
              /\ Truthy(tasks[i].ret.result.error_message)

C16_Witness ==
    /\ Over(1)
    /\ tasks[1].failed = "transform"
    /\ tasks[1].should_write
    /\ tasks[1].n_read = 1
    /\ tasks[1].n_fetch = 1
    /\ tasks[1].n_transform = 1
    /\ tasks[1].n_write = 0

\* the stored result the cache gave task i has markup and every artifact
\* the request of task i demands
ValidHit(i) ==
    /\ tasks[i].read_entry.some
    /\ Truthy(tasks[i].read_entry.html)
    /\ tasks[i].config.screenshot => Truthy(tasks[i].read_entry.screenshot)
    /\ tasks[i].config.pdf => Truthy(tasks[i].read_entry.pdf)

\* C17: when should_read holds and the store gives an entry with markup and
\* with the screenshot and the PDF the request demands, arun returns that
\* entry and neither fetches nor transforms.
C17_ValidHitServed ==
    \A i \in Tasks :
        Over(i) /\ tasks[i].should_read /\ ValidHit(i) =>
            /\ ServedFromCache(i)
            /\ tasks[i].n_transform = 0
            /\ tasks[i].ret.result.html = tasks[i].read_entry.html

\* C18: when arun has fetched and transformed without error and
\* should_write holds, it has written the new result to the store before
\* it returns, whatever made it fetch, and the store holds that result.
C18_FreshResultWritten ==
    \A i \in Tasks :
        /\ Over(i) /\ tasks[i].n_fetch = 1 /\ tasks[i].failed = None
        /\ tasks[i].ret.result.success /\ tasks[i].should_write
        =>  /\ tasks[i].n_write = 1
            /\ cache[tasks[i].url] = tasks[i].ret.result

\* C19: when arun has fetched, the extracted content of the result comes
\* from running the extraction strategy on the fetched markup: a result
\* with extracted content, or a request with an extraction strategy, means
\* the extraction ran in this invocation.
C19_FreshExtraction ==
    \A i \in Tasks :
        Over(i) /\ tasks[i].n_fetch = 1 /\ tasks[i].failed = None /\ tasks[i].ret.result.success =>
            /\ Truthy(tasks[i].ret.result.extracted_content) => tasks[i].n_extract = 1
            /\ tasks[i].config.extraction_strategy \notin {None, "NoExtractionStrategy"}
                  => tasks[i].n_extract = 1

\* the config arun(url, config) makes of the config given to arun_many
BatchEffective == EffectiveConfig(batch_config, DefaultLegacy)

\* C20: every arun invocation of a batch runs under the config given to
\* arun_many: its cache mode, its screenshot and PDF flags and its
\* extraction strategy are those of that config, and so is its cache
\* decision.
C20_BatchConfigInEffect ==
    \A i \in Tasks :
        tasks[i].via_many /\ Decided(i) =>
            /\ tasks[i].config.cache_mode = BatchEffective.cache_mode
            /\ tasks[i].config.screenshot = BatchEffective.screenshot
            /\ tasks[i].config.pdf = BatchEffective.pdf
            /\ tasks[i].config.extraction_strategy = BatchEffective.extraction_strategy
            /\ tasks[i].should_read = ContextRead(BatchEffective)

\* task i has read the ledger entry of its origin and has not yet written it
BetweenReadAndWrite(i) == tasks[i].via_many /\ tasks[i].pc = "sleep"

\* C21: the rate limiter's read, check and write of an origin's ledger entry
\* are atomic: while one task is between its read and its write no other
\* task of that origin is, and two tasks of an origin that were delayed did
\* not compute their delay from the same ledger value.
C21_LedgerAtomic ==
    \A i \in Tasks, j \in Tasks :
        i # j /\ Netloc(tasks[i].url) = Netloc(tasks[j].url) =>
            /\ ~(BetweenReadAndWrite(i) /\ BetweenReadAndWrite(j))
            /\ tasks[i].slept /\ tasks[j].slept => tasks[i].last_hit # tasks[j].last_hit

\* task i has made its write to the ledger
HitRecorded(i) ==
    tasks[i].via_many /\ tasks[i].pc \notin {"idle", "called", "sleep"}

\* C22: the time a task stores in the ledger is the time at which it goes on
\* to the fetch: for a task that was suspended by the rate limiter it is not
\* earlier than the end of the suspension.
C22_LedgerHoldsDispatchTime ==
    \A i \in Tasks :
        HitRecorded(i) /\ tasks[i].slept =>
            /\ tasks[i].current_time >= tasks[i].wake_at
            /\ domain_last_hit[Netloc(tasks[i].url)] >= tasks[i].wake_at

\* C23: the ledger is the instance's own: an instance that has dispatched
\* nothing has an empty ledger, and a ledger entry that a task reads was
\* written by an earlier task of the same instance (here: of the same batch).
C23_LedgerPerInstance ==
    /\ phase = "idle" => \A o \in Origins : domain_last_hit[o] = -1
    /\ \A i \in Tasks :
          tasks[i].via_many /\ tasks[i].last_hit # -1 =>
              \E j \in 1..(i - 1) : Netloc(tasks[j].url) = Netloc(tasks[i].url)

\* task i is in the body of arun, between the cache lookup and the return
InBody(i) == tasks[i].pc \in {"read", "fetch", "write"}

\* C24: on a crawler made with thread_safe=True the lock is held by exactly
\* the invocation that is in the body of arun: at most one invocation is in
\* the body, and when none is (each has returned, failed or not started)
\* the lock is free.
C24_LockExclusion ==
    lock # -1 =>
        /\ lock \in {0} \cup Tasks
        /\ \A i \in Tasks : InBody(i) <=> lock = i
        /\ Cardinality({i \in Tasks : InBody(i)}) <= 1

C24_Witness ==
    /\ phase = "running"
    /\ batch_config.semaphore_count = 0
    /\ lock = 2
    /\ tasks[2].pc = "fetch"
    /\ tasks[1].pc = "lock"

\* on a crawler made with thread_safe=False two invocations are in the
\* body at once (a reachable state of SpecMany)
TwoInBodyWithoutLock == lock = -1 /\ InBody(1) /\ InBody(2)

\* C25: a batch that has started returns, with every task over, all the
\* permits of the semaphore given back and the lock free.
C25_BatchReturns ==
    /\ (phase = "running") ~> (phase = "returned")
    /\ [](phase = "returned" =>
            /\ \A i \in 1..Len(urls) : Over(i)
            /\ semaphore = SemaphoreCount(batch_config)
            /\ lock \in {-1, 0})

C25_Witness ==
    /\ phase = "returned"
    /\ batch_config.semaphore_count = 1
    /\ lock = 0
    /\ tasks[1].failed = "fetch"
    /\ tasks[2].n_fetch = 1
    /\ done_order = <<1, 2>>

\* The block ran to its end with relevance filtering.
Filtered == extraction.pc = "done" /\ Truthy(extraction.query) /\ ~extraction.raised

\* C26: the text handed to chunking is the raw markdown for `markdown` and for
\* an unrecognised format, the raw markup for `html`, the fit markdown for
\* `fit_markdown` when there is one and the raw markdown when there is none;
\* for `html` the chunking is the identity chunking.
C26_ContentByInputFormat ==
    extraction.pc = "done" =>
        /\ extraction.input_format = "html" =>
              /\ extraction.content = extraction.html
              /\ extraction.chunking = "IdentityChunking"
              /\ extraction.chunked = <<extraction.html>>
        /\ extraction.input_format = "fit_markdown" =>
              extraction.content = IF extraction.fit_markdown # <<>>
                                   THEN extraction.fit_markdown
                                   ELSE extraction.markdown
        /\ extraction.input_format \notin {"html", "fit_markdown"} =>
              extraction.content = extraction.markdown

\* C27: with a query, a chunk survives iff its query score is strictly above
\* the 90th percentile of the query scores or its date score is strictly
\* above 0.1; of ten chunks scored 0.9, 0.1, ..., 0.1 with date scores 0.0
\* exactly the first survives.
C27_PercentileFilter ==
    Filtered /\ extraction.chunked # <<>> =>
        LET key(k) == Take(extraction.chunked[k], PrefixLen)
            kept == {extraction.filtered[j] : j \in 1..Len(extraction.filtered)}
            scores == {extraction.query_score[key(k)] : k \in 1..Len(extraction.chunked)}
        IN  /\ \A k \in 1..Len(extraction.chunked) :
                  k \in kept <=>
                      \/ 100 * extraction.query_score[key(k)] > extraction.rerank_threshold
                      \/ extraction.date_score[key(k)] > DateThreshold
            /\ \A s \in scores : (\A t \in scores : t <= s) => extraction.rerank_threshold <= 100 * s
            /\ \A s \in scores : (\A t \in scores : t >= s) => extraction.rerank_threshold >= 100 * s
            /\ /\ extraction.chunked = TenChunks
               /\ extraction.query_score[key(1)] = 9
               /\ extraction.query_score[key(2)] = 1
               /\ \A k \in 1..10 : extraction.date_score[key(k)] = 0
               => extraction.filtered = <<1>> /\ extraction.rerank_threshold = 18 * 10

C27_Witness ==
    /\ Filtered
    /\ extraction.chunked = TenChunks
    /\ extraction.query_score[Take(LongX, PrefixLen)] = 9
    /\ extraction.query_score[Short] = 1
    /\ extraction.date_score = NoScores
    /\ extraction.filtered = <<1>>
    /\ extraction.run_sections = <<LongX>>

\* The number of chunks that the block keeps.
Survivors ==
    IF Truthy(extraction.query) THEN Len(extraction.filtered) ELSE Len(extraction.chunked)

C29_SurvivorsOwnText ==
    Filtered =>
        extraction.sections =
            [j \in 1..Len(extraction.filtered) |-> extraction.chunked[extraction.filtered[j]]]

====
